---- MODULE Spec2Model ----
(***************************************************************************)
(* Model of streamer.py: one run of main(), from the construction of the   *)
(* YouTubeStreamer to sys.exit.  The program is a single thread; every     *)
(* action is the code that runs between two blocking calls (an HTTP        *)
(* request, a subprocess, time.sleep), and the answer of the blocking call *)
(* (response, exit code, exception, KeyboardInterrupt) is the action's     *)
(* input.  A KeyboardInterrupt raised while that code prints has an action *)
(* of its own (...Interrupted), which ends in the state the code had       *)
(* reached.  Strings are tuples of one-character strings so that substring *)
(* tests, prefixes and the regular expressions are computed, not assumed.  *)
(***************************************************************************)
EXTENDS Integers, Sequences, FiniteSets

(* ---------------------------- bounds ---------------------------------- *)

\* File sizes tried lie within SizeSlack bytes of the 10,000-byte threshold
\* (and 0, the empty file).
SizeSlack == 1

(* ----------------------- program constants ---------------------------- *)

\* the ceiling of the restart loop
MaxAttempts == 999

\* self.retry_delay
RetryDelay == 5

\* the literal 10000 of the three size checks
MinFileSize == 10000

(* ----------------------------- strings -------------------------------- *)

DriveHost == <<"d", "r", "i", "v", "e", ".", "g", "o", "o", "g", "l", "e", ".", "c", "o", "m">>

DocsHost == <<"d", "o", "c", "s", ".", "g", "o", "o", "g", "l", "e", ".", "c", "o", "m">>

PatFileD == <<"/", "f", "i", "l", "e", "/", "d", "/">>

PatIdEq == <<"i", "d", "=">>

PatOpenId == <<"/", "o", "p", "e", "n", "?", "i", "d", "=">>

PatD == <<"/", "d", "/">>

WarningPrefix == <<"d", "o", "w", "n", "l", "o", "a", "d", "_", "w", "a", "r", "n", "i", "n", "g">>

ConfirmEq == <<"c", "o", "n", "f", "i", "r", "m", "=">>

GenericToken == <<"t">>

TextHtml == <<"t", "e", "x", "t", "/", "h", "t", "m", "l">>

IdChars == {"a", "b", "c", "d", "e", "f", "g", "h", "i", "j", "k", "l", "m", "n", "o", "p", "q", "r", "s", "t", "u", "v", "w", "x", "y", "z", "A", "B", "C", "D", "E", "F", "G", "H", "I", "J", "K", "L", "M", "N", "O", "P", "Q", "R", "S", "T", "U", "V", "W", "X", "Y", "Z", "0", "1", "2", "3", "4", "5", "6", "7", "8", "9", "_", "-"}

\* The decimal digits int() accepts, of those a string of this module can
\* hold: ten per script, in the order of their values, the ASCII digits
\* first.  int() accepts the digits of 47 more scripts (Arabic-Indic
\* U+0660.., Devanagari U+0966.., fullwidth U+FF10.., ...); no string here
\* contains them.
Digits ==
  <<"0", "1", "2", "3", "4", "5", "6", "7", "8", "9",
     "۰", "۱", "۲", "۳", "۴", "۵", "۶", "۷", "۸", "۹",
     "߀", "߁", "߂", "߃", "߄", "߅", "߆", "߇", "߈", "߉",
     "০", "১", "২", "৩", "৪", "৫", "৬", "৭", "৮", "৯",
     "૦", "૧", "૨", "૩", "૪", "૫", "૬", "૭", "૮", "૯",
     "௦", "௧", "௨", "௩", "௪", "௫", "௬", "௭", "௮", "௯",
     "೦", "೧", "೨", "೩", "೪", "೫", "೬", "೭", "೮", "೯",
     "෦", "෧", "෨", "෩", "෪", "෫", "෬", "෭", "෮", "෯",
     "໐", "໑", "໒", "໓", "໔", "໕", "໖", "໗", "໘", "໙",
     "႐", "႑", "႒", "႓", "႔", "႕", "႖", "႗", "႘", "႙",
     "០", "១", "២", "៣", "៤", "៥", "៦", "៧", "៨", "៩",
     "᧐", "᧑", "᧒", "᧓", "᧔", "᧕", "᧖", "᧗", "᧘", "᧙",
     "᪀", "᪁", "᪂", "᪃", "᪄", "᪅", "᪆", "᪇", "᪈", "᪉",
     "᪐", "᪑", "᪒", "᪓", "᪔", "᪕", "᪖", "᪗", "᪘", "᪙",
     "᮰", "᮱", "᮲", "᮳", "᮴", "᮵", "᮶", "᮷", "᮸", "᮹",
     "꣐", "꣑", "꣒", "꣓", "꣔", "꣕", "꣖", "꣗", "꣘", "꣙",
     "꧐", "꧑", "꧒", "꧓", "꧔", "꧕", "꧖", "꧗", "꧘", "꧙",
     "꧰", "꧱", "꧲", "꧳", "꧴", "꧵", "꧶", "꧷", "꧸", "꧹",
     "꯰", "꯱", "꯲", "꯳", "꯴", "꯵", "꯶", "꯷", "꯸", "꯹">>


\* Optional values: Python's None and a present value.
None == [isNone |-> TRUE, val |-> <<>>]

Some(v) == [isNone |-> FALSE, val |-> v]

\* Python truthiness of an Optional[str]: None and "" are both falsy.
Truthy(o) == (~o.isNone) /\ o.val # <<>>

\* s[i:].startswith(lit)
StartsWithAt(s, i, lit) ==
    /\ i + Len(lit) - 1 <= Len(s)
    /\ SubSeq(s, i, i + Len(lit) - 1) = lit

\* str.startswith
StartsWith(s, lit) == StartsWithAt(s, 1, lit)

\* "lit in s"
Contains(lit, s) == \E i \in 1..(Len(s) + 1) : StartsWithAt(s, i, lit)

\* A regular-expression character class: [chars] or, negated, [^chars].
InClass(c, cls) == (c \in cls.chars) # cls.negated

\* re.search(lit + "(cls+)", s).group(1): the leftmost place where lit is
\* followed by at least one character of the class, and the longest run of
\* class characters from there (the + is greedy); None when re.search fails.
ReSearchGroup(lit, cls, s) ==
    LET starts == {i \in 1..Len(s) :
                      /\ StartsWithAt(s, i, lit)
                      /\ i + Len(lit) <= Len(s)
                      /\ InClass(s[i + Len(lit)], cls)}
    IN IF starts = {} THEN None
       ELSE LET i == CHOOSE x \in starts : \A y \in starts : x <= y
                j == i + Len(lit)
                k == CHOOSE x \in j..Len(s) :
                        /\ \A m \in j..x : InClass(s[m], cls)
                        /\ (x = Len(s) \/ ~InClass(s[x + 1], cls))
            IN Some(SubSeq(s, j, k))

(* -------------------------- URL classifier ---------------------------- *)

\* the class [a-zA-Z0-9_-]
IdClass == [chars |-> IdChars, negated |-> FALSE]

is_google_drive_url(url) == Contains(DriveHost, url) \/ Contains(DocsHost, url)

patterns == <<PatFileD, PatIdEq, PatOpenId, PatD>>

\* The first pattern, in list order, that matches gives the id.
extract_gdrive_id(url) ==
    LET hits == {n \in 1..Len(patterns) :
                    ~ReSearchGroup(patterns[n], IdClass, url).isNone}
    IN IF hits = {} THEN None
       ELSE ReSearchGroup(patterns[CHOOSE n \in hits : \A m \in hits : n <= m],
                          IdClass, url)

(* ------------------- confirmation token (handshake) ------------------- *)

\* Faulty variant of cookie_token: no break, the last cookie whose name
\* starts with "download_warning" wins.
cookie_token_last(jar) ==
    LET hits == {n \in 1..Len(jar) : StartsWith(jar[n][1], WarningPrefix)}
    IN IF hits = {} THEN None
       ELSE Some(jar[CHOOSE n \in hits : \A m \in hits : n >= m][2])

\* A cookie jar is a sequence of <<name, value>> pairs in iteration order.
\* The for loop over response.cookies.items(): the first cookie whose name
\* starts with "download_warning" sets token and breaks.
cookie_token(jar) ==
    LET hits == {n \in 1..Len(jar) : StartsWith(jar[n][1], WarningPrefix)}
    IN IF hits = {} THEN None
       ELSE Some(jar[CHOOSE n \in hits : \A m \in hits : n <= m][2])

\* The class [^&"] of the body pattern.
TokenClass == [chars |-> {"&", "\""}, negated |-> TRUE]

\* "if not token": the body is searched whenever the cookie loop left token
\* falsy (None or ""); a failed search leaves token as it was.
select_token(jar, body) ==
    LET fromCookie == cookie_token(jar)
        fromBody == ReSearchGroup(ConfirmEq, TokenClass, body)
    IN IF Truthy(fromCookie) THEN fromCookie
       ELSE IF ~fromBody.isNone THEN fromBody
       ELSE fromCookie

\* "if token: params = {id, confirm: token} else: params = {id, confirm: 't'}"
second_params(id, token) ==
    [id |-> Some(id),
     confirm |-> IF Truthy(token) THEN Some(token.val) ELSE Some(GenericToken)]

\* Faulty variant of is_html: equality in place of the substring test.
is_html_exact(content_type) == content_type = TextHtml

\* "'text/html' in content_type"
is_html(content_type) == Contains(TextHtml, content_type)

(* --------------------------- size checks ------------------------------ *)

\* download_from_gdrive: "if file_size < 10000" sends the file to the fallback
gdrive_too_small(size) == size < MinFileSize

\* download_gdrive_alternative: "return file_size > 10000"
alternative_accepts(size) == size > MinFileSize

\* Faulty variant of run_too_small: a threshold of 1,000 bytes.
run_too_small_1000(size) == size < 1000

\* run: "if file_size < 10000" fails the run
run_too_small(size) == size < MinFileSize

(* ------------------------- encoding plan ------------------------------ *)

\* The characters int() skips around a number, of those a string of this
\* module can hold: U+0009..U+000D, U+0020, U+0085, U+00A0 and U+1680.
\* int() skips U+2000..U+200A, U+2028, U+2029, U+202F, U+205F and U+3000 as
\* well; no string here contains them.  U+001C..U+001F, which str.strip
\* removes, are not skipped by int().
Whitespace == {"\t", "\n", "", "\f", "\r", " ", "", " ", " "}

\* the leading characters int() skips
RECURSIVE LStrip(_)
LStrip(s) == IF s # <<>> /\ Head(s) \in Whitespace THEN LStrip(Tail(s)) ELSE s

\* the trailing characters int() skips
RECURSIVE RStrip(_)
RStrip(s) ==
    IF s # <<>> /\ s[Len(s)] \in Whitespace
    THEN RStrip(SubSeq(s, 1, Len(s) - 1)) ELSE s

\* the value of a decimal digit of any script
DigitVal(c) == ((CHOOSE n \in 1..Len(Digits) : Digits[n] = c) - 1) % 10

IsDigit(c) == \E n \in 1..Len(Digits) : Digits[n] = c

RECURSIVE DecimalValue(_)
DecimalValue(ds) ==
    IF ds = <<>> THEN 0
    ELSE 10 * DecimalValue(SubSeq(ds, 1, Len(ds) - 1)) + DigitVal(ds[Len(ds)])

\* Python int(str): surrounding whitespace, an optional sign, then decimal
\* digits in which single underscores may separate digits.  ok = FALSE is
\* ValueError.
ParseInt(str) ==
    LET s == RStrip(LStrip(str))
        signed == s # <<>> /\ Head(s) \in {"+", "-"}
        body == IF signed THEN Tail(s) ELSE s
        wellFormed ==
            /\ body # <<>>
            /\ \A n \in 1..Len(body) : IsDigit(body[n]) \/ body[n] = "_"
            /\ IsDigit(body[1]) /\ IsDigit(body[Len(body)])
            /\ \A n \in 1..(Len(body) - 1) : ~(body[n] = "_" /\ body[n + 1] = "_")
        magnitude == DecimalValue(SelectSeq(body, IsDigit))
    IN IF ~wellFormed THEN [ok |-> FALSE, val |-> 0]
       ELSE [ok |-> TRUE,
             val |-> IF signed /\ Head(s) = "-" THEN 0 - magnitude ELSE magnitude]

RECURSIVE NatToStr(_)
NatToStr(n) ==
    IF n < 10 THEN <<Digits[n + 1]>>
    ELSE NatToStr(n \div 10) \o <<Digits[(n % 10) + 1]>>

\* Python str(int)
IntToStr(n) == IF n < 0 THEN <<"-">> \o NatToStr(0 - n) ELSE NatToStr(n)

\* str.replace(ch, '')
RemoveChar(s, ch) == LET Keep(c) == c # ch IN SelectSeq(s, Keep)

\* int(height * num / den): true division, truncated towards zero
ScaledWidth(height, num, den) ==
    IF height >= 0 THEN (height * num) \div den
    ELSE 0 - (((0 - height) * num) \div den)

Aspect169 == <<"1", "6", ":", "9">>

Aspect916 == <<"9", ":", "1", "6">>

Aspect43 == <<"4", ":", "3">>

Aspect11 == <<"1", ":", "1">>

\* the if/elif chain on self.aspect_ratio
aspect_width(height, aspect) ==
    IF aspect = Aspect169 THEN ScaledWidth(height, 16, 9)
    ELSE IF aspect = Aspect916 THEN ScaledWidth(height, 9, 16)
    ELSE IF aspect = Aspect43 THEN ScaledWidth(height, 4, 3)
    ELSE IF aspect = Aspect11 THEN height
    ELSE ScaledWidth(height, 16, 9)

\* Faulty variant of make_even: the width is left as computed.
make_even_skipped(width) == width

\* "width if width % 2 == 0 else width + 1"
make_even(width) == IF width % 2 = 0 THEN width ELSE width + 1

\* bitrate_map.get(height, '2500k')
bitrate_map(height) ==
    IF height = 360 THEN <<"8", "0", "0", "k">>
    ELSE IF height = 480 THEN <<"1", "2", "0", "0", "k">>
    ELSE IF height = 720 THEN <<"2", "5", "0", "0", "k">>
    ELSE IF height = 1080 THEN <<"4", "5", "0", "0", "k">>
    ELSE IF height = 1440 THEN <<"9", "0", "0", "0", "k">>
    ELSE IF height = 2160 THEN <<"2", "0", "0", "0", "0", "k">>
    ELSE <<"2", "5", "0", "0", "k">>

\* str(int(video_bitrate.replace('k', '')) * 2) + 'k'
bufsize_of(video_bitrate) ==
    IntToStr(ParseInt(RemoveChar(video_bitrate, "k")).val * 2) \o <<"k">>

\* The plan computed at the top of start_streaming; ok = FALSE when
\* int(self.quality.replace('p', '')) raises ValueError.
encoding_plan(q, aspect) ==
    LET hasP == Contains(<<"p">>, q)
        parsed == ParseInt(RemoveChar(q, "p"))
        height == IF hasP THEN parsed.val ELSE 720
        width == IF hasP THEN make_even(aspect_width(height, aspect)) ELSE 1280
        rate == bitrate_map(height)
    IN IF hasP /\ ~parsed.ok
       THEN [ok |-> FALSE, width |-> 0, height |-> 0,
             video_bitrate |-> <<>>, bufsize |-> <<>>]
       ELSE [ok |-> TRUE, width |-> width, height |-> height,
             video_bitrate |-> rate, bufsize |-> bufsize_of(rate)]

NoPlan == [ok |-> FALSE, width |-> 0, height |-> 0, video_bitrate |-> <<>>, bufsize |-> <<>>]

(* ------------------------------ inputs -------------------------------- *)

UrlDriveFile == <<"d", "r", "i", "v", "e", ".", "g", "o", "o", "g", "l", "e", ".", "c", "o", "m", "/", "f", "i", "l", "e", "/", "d", "/", "a", "B", "-", "1", "/", "v", "i", "e", "w">>

UrlDocsOpen == <<"d", "o", "c", "s", ".", "g", "o", "o", "g", "l", "e", ".", "c", "o", "m", "/", "o", "p", "e", "n", "?", "i", "d", "=", "x", "_", "9", "&", "e", "=", "1">>

UrlDriveNoId == <<"d", "r", "i", "v", "e", ".", "g", "o", "o", "g", "l", "e", ".", "c", "o", "m", "/", "d", "r", "i", "v", "e", "/", "m", "y", "-", "d", "r", "i", "v", "e">>

UrlDirect == <<"c", "d", "n", ".", "e", "x", "a", "m", "p", "l", "e", ".", "o", "r", "g", "/", "v", ".", "m", "p", "4">>

KeyValue == <<"a", "b", "c", "d", "-", "1", "2", "3", "4">>

CookieNid == <<"N", "I", "D">>

CookieWarn1 == <<"d", "o", "w", "n", "l", "o", "a", "d", "_", "w", "a", "r", "n", "i", "n", "g", "_", "1">>

CookieWarn2 == <<"d", "o", "w", "n", "l", "o", "a", "d", "_", "w", "a", "r", "n", "i", "n", "g", "_", "2">>

CookieNotPrefix == <<"x", "_", "d", "o", "w", "n", "l", "o", "a", "d", "_", "w", "a", "r", "n", "i", "n", "g">>

TokCookie == <<"C", "k", "1">>

TokCookie2 == <<"Z", "z">>

TokOther == <<"n", "0">>

BodyWithToken == <<"h", "r", "e", "f", "=", "\"", "/", "u", "c", "?", "c", "o", "n", "f", "i", "r", "m", "=", "T", "b", "&", "i", "d", "=", "1", "\"">>

BodyLateToken == <<"c", "o", "n", "f", "i", "r", "m", "=", "&", "x", ";", "c", "o", "n", "f", "i", "r", "m", "=", "U", "2", "\"">>

BodyNoToken == <<"<", "h", "t", "m", "l", ">", "q", "u", "o", "t", "a", "<", "/", "h", "t", "m", "l", ">">>

CtHtml == <<"t", "e", "x", "t", "/", "h", "t", "m", "l">>

CtHtmlCharset == <<"t", "e", "x", "t", "/", "h", "t", "m", "l", ";", " ", "c", "h", "a", "r", "s", "e", "t", "=", "u", "t", "f", "-", "8">>

CtVideo == <<"v", "i", "d", "e", "o", "/", "m", "p", "4">>

CtOctet == <<"a", "p", "p", "l", "i", "c", "a", "t", "i", "o", "n", "/", "o", "c", "t", "e", "t", "-", "s", "t", "r", "e", "a", "m">>

Quality720 == <<"7", "2", "0", "p">>

QualityBest == <<"b", "e", "s", "t">>

QualityHdp == <<"h", "d", "p">>

\* os.getenv gives None for an unset variable and "" for one set to nothing.
StreamKeys == {None, Some(<<>>), Some(KeyValue)}

VideoUrls == {None, Some(<<>>), Some(UrlDriveFile), Some(UrlDocsOpen),
              Some(UrlDriveNoId), Some(UrlDirect)}

RunQualities == {Quality720, QualityHdp}

RunAspects == {Aspect169}

\* Cookie jars of the first response.
Jars == {<<>>,
         <<<<CookieNid, TokOther>>>>,
         <<<<CookieWarn1, TokCookie>>>>,
         <<<<CookieWarn1, <<>>>>>>,
         <<<<CookieNid, TokOther>>, <<CookieWarn1, TokCookie>>, <<CookieWarn2, TokCookie2>>>>,
         <<<<CookieWarn1, <<>>>>, <<CookieWarn2, TokCookie2>>>>,
         <<<<CookieNotPrefix, TokOther>>>>}

\* Bodies of the first response.
Bodies == {<<>>, BodyWithToken, BodyLateToken, BodyNoToken}

\* Content types of the second response; None is a response without the header.
ContentTypes == {None, Some(CtHtml), Some(CtHtmlCharset), Some(CtVideo), Some(CtOctet)}

LengthZero == <<"0">>

LengthNumber == <<"2", "0", "0", "0", "0">>

LengthPadded == <<" ", "2", "0", "0", "0", "0", "\r">>

LengthBad == <<"a", "b", "c">>

\* Content-Length headers of the second response: missing, a number, a
\* number with whitespace around it, not a number.
ContentLengths == {None, Some(LengthZero), Some(LengthNumber), Some(LengthPadded),
                   Some(LengthBad)}

Sizes == {0} \cup ((MinFileSize - SizeSlack)..(MinFileSize + SizeSlack))

ExitCodes == {0, 1}

ProbeOutcomes == {"duration", "nonzero", "unparseable", "timeout"}

(* ------------------------------ state --------------------------------- *)

VARIABLES
    stream_key,     \* self.stream_key
    video_url,      \* self.video_url
    quality,        \* self.quality
    aspect_ratio,   \* self.aspect_ratio
    pc,             \* the blocking call the program is in, or "main"/"exited"
    file,           \* video.mp4 on disk: exists, size, and which step wrote it
    file_id,        \* download_video: file_id
    token,          \* download_from_gdrive: token
    params,         \* download_from_gdrive: params of the request in flight
    content_type,   \* download_from_gdrive: content_type of the second response
    response,       \* download_from_gdrive: cookies and text of the first response
    dl_error,       \* the blocking call in which "except Exception" caught a download error
    fb_result,      \* what download_gdrive_alternative returned
    dl_result,      \* what download_video returned
    probe_result,   \* what get_video_duration returned
    gdown_rc,       \* download_gdrive_alternative: result.returncode, <<>> while unbound
    probe_outcome,  \* how the ffprobe call ended, as seen by get_video_duration
    plan,           \* start_streaming: width, height, video_bitrate, bufsize
    attempt,        \* start_streaming: attempt
    returncode,     \* start_streaming: process.returncode, <<>> while unbound
    ss_result,      \* what start_streaming returned
    run_result,     \* what run returned
    exit_status,    \* the argument of sys.exit, -1 while running
    last_msg,       \* the last message printed
    requests_sent,  \* number of HTTP requests issued
    tool_runs,      \* number of pip / gdown / ffprobe subprocess.run calls
    fallbacks,      \* number of calls of download_gdrive_alternative
    launches,       \* number of subprocess.run(ffmpeg_cmd) calls
    terminations,   \* number of times the encoder call returned or raised
    slept,          \* seconds spent in time.sleep
    cancelled       \* where each KeyboardInterrupt was raised, in order

config == <<stream_key, video_url, quality, aspect_ratio>>

download_locals == <<file_id, token, params, content_type, response, dl_error>>

tool_locals == <<gdown_rc, probe_outcome>>

stream_locals == <<plan, attempt, returncode, ss_result>>

counters == <<requests_sent, tool_runs, fallbacks, launches, terminations, slept>>

vars == <<stream_key, video_url, quality, aspect_ratio, pc, file, file_id,
          token, params, content_type, response, dl_error, fb_result,
          dl_result, probe_result, gdown_rc, probe_outcome,
          plan, attempt, returncode, ss_result, run_result, exit_status,
          last_msg, requests_sent, tool_runs, fallbacks, launches,
          terminations, slept, cancelled>>

NoParams == [id |-> None, confirm |-> None]

NoResponse == [cookies |-> <<>>, text |-> <<>>]

NoFile == [exists |-> FALSE, size |-> 0, writer |-> "none"]

\* YouTubeStreamer.__init__ and the environment it reads.  The run starts in
\* a fresh working directory: video.mp4 does not exist yet.
Init ==
    /\ stream_key \in StreamKeys
    /\ video_url \in VideoUrls
    /\ quality \in RunQualities
    /\ aspect_ratio \in RunAspects
    /\ pc = "main"
    /\ file = NoFile
    /\ file_id = None
    /\ token = None
    /\ params = NoParams
    /\ content_type = None
    /\ response = NoResponse
    /\ dl_error = "none"
    /\ fb_result = "unset"
    /\ dl_result = "unset"
    /\ probe_result = "unset"
    /\ gdown_rc = <<>>
    /\ probe_outcome = "unset"
    /\ plan = NoPlan
    /\ attempt = 0
    /\ returncode = <<>>
    /\ ss_result = "unset"
    /\ run_result = "unset"
    /\ exit_status = -1
    /\ last_msg = "none"
    /\ requests_sent = 0
    /\ tool_runs = 0
    /\ fallbacks = 0
    /\ launches = 0
    /\ terminations = 0
    /\ slept = 0
    /\ cancelled = <<>>

(* ------------------------ main and run: exits ------------------------- *)

\* main: "sys.exit(0 if success else 1)"
exit_code(success) == IF success THEN 0 ELSE 1

\* run returns success after printing msg, and main exits with its code.
RunReturns(success, msg) ==
    /\ pc' = "exited"
    /\ run_result' = (IF success THEN "True" ELSE "False")
    /\ exit_status' = exit_code(success)
    /\ last_msg' = msg

\* The status of a process that an uncaught KeyboardInterrupt ended: the
\* interpreter restores the default action of SIGINT (signal 2) and sends
\* the signal to itself, which a shell reports as 128 + 2.
InterruptedStatus == 128 + 2

\* A KeyboardInterrupt raised inside one of main's handlers, while it prints,
\* has no handler left: it ends the process.  raised lists where the
\* interrupts before it were raised.
MainEscapes(raised, msg) ==
    /\ pc' = "exited"
    /\ exit_status' = InterruptedStatus
    /\ last_msg' = msg
    /\ cancelled' = Append(raised, "main_handler")
    /\ UNCHANGED run_result

\* Faulty variant of MainKeyboardInterrupt: the interrupt is reported as a fatal error.
MainKeyboardInterruptFatal(raised) ==
    /\ pc' = "exited"
    /\ exit_status' = 1
    /\ last_msg' = "Fatal error"
    /\ cancelled' = raised
    /\ UNCHANGED run_result

\* main: "except KeyboardInterrupt" prints and exits with 0, unless another
\* KeyboardInterrupt is raised while it prints.  raised lists where the
\* interrupts were raised, the one being handled last.
MainKeyboardInterrupt(raised) ==
    \/ /\ pc' = "exited"
       /\ exit_status' = 0
       /\ last_msg' = "Stopped by user"
       /\ cancelled' = raised
       /\ UNCHANGED run_result
    \/ MainEscapes(raised, "Stopped by user")

\* main: "except Exception" prints the error and the traceback and exits with
\* 1, unless a KeyboardInterrupt is raised while it prints.
MainException ==
    \/ /\ pc' = "exited"
       /\ exit_status' = 1
       /\ last_msg' = "Fatal error"
       /\ UNCHANGED <<run_result, cancelled>>
    \/ MainEscapes(cancelled, "Fatal error")

\* A KeyboardInterrupt is raised at position where, outside the try statement
\* around the encoder: no handler below main names it.
Interrupted(where) == MainKeyboardInterrupt(Append(cancelled, where))

\* The program goes on to its next blocking call.
Goto(next, msg) ==
    /\ pc' = next
    /\ last_msg' = msg
    /\ UNCHANGED <<run_result, exit_status>>

\* download_video returns result to run.
DownloadReturns(result, msg) ==
    /\ dl_result' = result
    /\ Goto("downloaded", msg)

(* --------------------- run: validation, download_video ---------------- *)

\* Faulty variant of not_set: "is None" in place of "not".
not_set_is_none(setting) == setting.isNone

\* run: "if not self.stream_key" / "if not self.video_url"
not_set(setting) == ~Truthy(setting)

\* Faulty variant of Run: a Drive URL without identifier is not refused but
\* handed to the direct download.
RunNoIdFallsThrough ==
    /\ pc = "main"
    /\ UNCHANGED <<config, tool_locals, file, token, content_type, response, dl_error,
                   fb_result, probe_result, stream_locals, tool_runs, fallbacks, launches, terminations,
                   slept, cancelled>>
    /\ IF not_set(stream_key)
       THEN /\ RunReturns(FALSE, "ERROR: YOUTUBE_STREAM_KEY not set")
            /\ UNCHANGED <<file_id, params, dl_result, requests_sent>>
       ELSE IF not_set(video_url)
       THEN /\ RunReturns(FALSE, "ERROR: VIDEO_URL not set")
            /\ UNCHANGED <<file_id, params, dl_result, requests_sent>>
       ELSE IF is_google_drive_url(video_url.val) /\ Truthy(extract_gdrive_id(video_url.val))
       THEN LET id == extract_gdrive_id(video_url.val)
            IN /\ file_id' = id
               /\ params' = [id |-> Some(id.val), confirm |-> None]
               /\ requests_sent' = requests_sent + 1
               /\ Goto("gdrive_get1", "Getting download page...")
               /\ UNCHANGED dl_result
       ELSE /\ requests_sent' = requests_sent + 1
            /\ Goto("direct_get", "Downloading from direct URL...")
            /\ UNCHANGED <<file_id, params, dl_result>>

\* run up to its first blocking call: validation, then download_video up to
\* the first request of the handshake or the request of the direct download.
\* Without an identifier download_video prints the error, then "URL: ..."
\* (the last message), and returns False.
Run ==
    /\ pc = "main"
    /\ UNCHANGED <<config, tool_locals, file, token, content_type, response, dl_error,
                   fb_result, probe_result, stream_locals, tool_runs, fallbacks, launches, terminations,
                   slept, cancelled>>
    /\ IF not_set(stream_key)
       THEN /\ RunReturns(FALSE, "ERROR: YOUTUBE_STREAM_KEY not set")
            /\ UNCHANGED <<file_id, params, dl_result, requests_sent>>
       ELSE IF not_set(video_url)
       THEN /\ RunReturns(FALSE, "ERROR: VIDEO_URL not set")
            /\ UNCHANGED <<file_id, params, dl_result, requests_sent>>
       ELSE IF is_google_drive_url(video_url.val)
       THEN LET id == extract_gdrive_id(video_url.val)
            IN IF ~Truthy(id)
               THEN /\ DownloadReturns("False", "URL:")
                    /\ file_id' = id
                    /\ UNCHANGED <<params, requests_sent>>
               ELSE /\ file_id' = id
                    /\ params' = [id |-> Some(id.val), confirm |-> None]
                    /\ requests_sent' = requests_sent + 1
                    /\ Goto("gdrive_get1", "Getting download page...")
                    /\ UNCHANGED dl_result
       ELSE /\ requests_sent' = requests_sent + 1
            /\ Goto("direct_get", "Downloading from direct URL...")
            /\ UNCHANGED <<file_id, params, dl_result>>

\* A KeyboardInterrupt is raised while download_video prints after
\* extract_gdrive_id returned: file_id is bound and no request was sent.
RunInterrupted ==
    /\ pc = "main"
    /\ ~not_set(stream_key)
    /\ ~not_set(video_url)
    /\ is_google_drive_url(video_url.val)
    /\ file_id' = extract_gdrive_id(video_url.val)
    /\ Interrupted("download_video")
    /\ UNCHANGED <<config, tool_locals, file, token, params, content_type, response, dl_error,
                   fb_result, dl_result, probe_result, stream_locals, counters>>


(* ------------------- download_video: direct download ------------------ *)

\* requests.get returned a good status and the file was opened for writing
\* (ok), or requests.get, raise_for_status, int(content-length) or open
\* raised and "except Exception" returns False.
DirectResponse(ok) ==
    /\ pc = "direct_get"
    /\ UNCHANGED <<config, tool_locals, file_id, token, params, content_type, response,
                   fb_result, probe_result, stream_locals, counters, cancelled>>
    /\ IF ok
       THEN /\ file' = [exists |-> TRUE, size |-> 0, writer |-> "direct"]
            /\ Goto("direct_body", "Downloading from direct URL...")
            /\ UNCHANGED <<dl_result, dl_error>>
       ELSE /\ dl_error' = pc
            /\ DownloadReturns("False", "Download error")
            /\ UNCHANGED file

\* The body was written completely (size bytes); download_video returns True
\* without looking at the size.
DirectBodyDone(size) ==
    /\ pc = "direct_body"
    /\ file' = [file EXCEPT !.size = size]
    /\ DownloadReturns("True", "Download complete!")
    /\ UNCHANGED <<config, tool_locals, download_locals, fb_result, probe_result,
                   stream_locals, counters, cancelled>>

\* iter_content raised after size bytes were written.
DirectBodyError(size) ==
    /\ pc = "direct_body"
    /\ file' = [file EXCEPT !.size = size]
    /\ dl_error' = pc
    /\ DownloadReturns("False", "Download error")
    /\ UNCHANGED <<config, tool_locals, file_id, token, params, content_type, response,
                   fb_result, probe_result, stream_locals, counters, cancelled>>

\* A KeyboardInterrupt is raised while the handler of the direct download
\* prints "Download error": the error was caught, nothing was returned.
DirectErrorInterrupted(size) ==
    /\ pc \in {"direct_get", "direct_body"}
    /\ file' = (IF pc = "direct_body" THEN [file EXCEPT !.size = size] ELSE file)
    /\ dl_error' = pc
    /\ Interrupted("direct_error")
    /\ UNCHANGED <<config, tool_locals, file_id, token, params, content_type, response,
                   fb_result, dl_result, probe_result, stream_locals, counters>>


(* ------------------ download_gdrive_alternative ----------------------- *)

\* download_gdrive_alternative is called: it runs pip install.
AlternativeStarts ==
    /\ fallbacks' = fallbacks + 1
    /\ tool_runs' = tool_runs + 1
    /\ Goto("pip_install", "Installing gdown...")
    /\ UNCHANGED <<fb_result, dl_result, requests_sent, launches, terminations, slept>>

\* A KeyboardInterrupt is raised while download_gdrive_alternative, just
\* called, prints before it runs pip: "except Exception" does not catch it.
AlternativeInterrupted ==
    /\ fallbacks' = fallbacks + 1
    /\ Interrupted("alternative")
    /\ UNCHANGED <<fb_result, dl_result, requests_sent, tool_runs, launches, terminations,
                   slept>>

\* A KeyboardInterrupt is raised while download_from_gdrive prints at
\* position where, before any call of the alternative.
HandshakeInterrupted(where) ==
    /\ Interrupted(where)
    /\ UNCHANGED <<fb_result, dl_result, counters>>


\* download_gdrive_alternative returns result; each of its three callers in
\* download_from_gdrive returns that value, and so does download_video.
AlternativeReturns(result, msg) ==
    /\ fb_result' = result
    /\ DownloadReturns(result, msg)

\* pip install ended: with status 0 (ok), gdown is run; a non-zero status
\* (check=True), a timeout or a launch error is caught and False returned.
PipDone(ok) ==
    /\ pc = "pip_install"
    /\ UNCHANGED <<config, tool_locals, file, download_locals, probe_result, stream_locals,
                   requests_sent, fallbacks, launches, terminations, slept,
                   cancelled>>
    /\ IF ok
       THEN /\ tool_runs' = tool_runs + 1
            /\ Goto("gdown", "Downloading with gdown...")
            /\ UNCHANGED <<fb_result, dl_result>>
       ELSE /\ AlternativeReturns("False", "Alternative method failed")
            /\ UNCHANGED tool_runs

\* What gdown, an external tool, left on disk: nothing new, or a file of
\* some size.
AfterGdown(wrote, size) ==
    IF wrote THEN [exists |-> TRUE, size |-> size, writer |-> "gdown"] ELSE file

\* Faulty variant of GdownDone: the exit status is not looked at.
GdownDoneIgnoresStatus(rc, wrote, size) ==
    /\ pc = "gdown"
    /\ file' = AfterGdown(wrote, size)
    /\ gdown_rc' = <<rc>>
    /\ UNCHANGED <<config, probe_outcome, download_locals, probe_result,
                   stream_locals, counters, cancelled>>
    /\ IF file'.exists
       THEN AlternativeReturns(IF alternative_accepts(file'.size) THEN "True" ELSE "False",
                               "Download complete")
       ELSE AlternativeReturns("False", "gdown failed")

\* gdown returned with exit status rc.
GdownDone(rc, wrote, size) ==
    /\ pc = "gdown"
    /\ file' = AfterGdown(wrote, size)
    /\ gdown_rc' = <<rc>>
    /\ UNCHANGED <<config, probe_outcome, download_locals, probe_result,
                   stream_locals, counters, cancelled>>
    /\ IF rc = 0 /\ file'.exists
       THEN AlternativeReturns(IF alternative_accepts(file'.size) THEN "True" ELSE "False",
                               "Download complete")
       ELSE AlternativeReturns("False", "gdown failed")

\* A KeyboardInterrupt is raised while the alternative prints what gdown
\* returned: nothing is returned to the callers.
GdownDoneInterrupted(rc, wrote, size) ==
    /\ pc = "gdown"
    /\ file' = AfterGdown(wrote, size)
    /\ gdown_rc' = <<rc>>
    /\ Interrupted("gdown_done")
    /\ UNCHANGED <<config, probe_outcome, download_locals, fb_result, dl_result,
                   probe_result, stream_locals, counters>>


\* Faulty variant of GdownError: after a failed tool run the alternative is
\* tried once more.
GdownErrorRetries(wrote, size) ==
    /\ pc = "gdown"
    /\ file' = AfterGdown(wrote, size)
    /\ IF fallbacks < 2
       THEN AlternativeStarts
       ELSE /\ AlternativeReturns("False", "Alternative method failed")
            /\ UNCHANGED counters
    /\ UNCHANGED <<config, tool_locals, download_locals, probe_result, stream_locals,
                   cancelled>>

\* subprocess.run(gdown) raised: the 30-minute timeout or a launch error.
GdownError(wrote, size) ==
    /\ pc = "gdown"
    /\ file' = AfterGdown(wrote, size)
    /\ AlternativeReturns("False", "Alternative method failed")
    /\ UNCHANGED <<config, tool_locals, download_locals, probe_result, stream_locals,
                   counters, cancelled>>

(* ------------------------ download_from_gdrive ------------------------ *)

\* The first response arrived with cookie jar: session.get(stream=True)
\* returns once the headers are read.  The cookie loop chooses token; a
\* truthy token goes into the second request at once, otherwise
\* response.text is read, which waits for the body.
GdriveFirstResponse(jar) ==
    /\ pc = "gdrive_get1"
    /\ response' = [cookies |-> jar, text |-> <<>>]
    /\ token' = cookie_token(jar)
    /\ IF Truthy(token')
       THEN /\ params' = second_params(file_id.val, token')
            /\ requests_sent' = requests_sent + 1
            /\ Goto("gdrive_get2", "Starting download...")
       ELSE /\ Goto("gdrive_text", "Getting download page...")
            /\ UNCHANGED <<params, requests_sent>>
    /\ UNCHANGED <<config, tool_locals, file, file_id, content_type, dl_error, fb_result,
                   dl_result, probe_result, stream_locals, tool_runs, fallbacks, launches,
                   terminations, slept, cancelled>>

\* response.text returned body: the token is searched in it and the second
\* request is issued with the token chosen.
GdriveFirstText(body) ==
    /\ pc = "gdrive_text"
    /\ response' = [response EXCEPT !.text = body]
    /\ token' = select_token(response.cookies, body)
    /\ params' = second_params(file_id.val, token')
    /\ requests_sent' = requests_sent + 1
    /\ Goto("gdrive_get2", "Starting download...")
    /\ UNCHANGED <<config, tool_locals, file, file_id, content_type, dl_error, fb_result,
                   dl_result, probe_result, stream_locals, tool_runs, fallbacks, launches,
                   terminations, slept, cancelled>>

\* A KeyboardInterrupt is raised while "Starting download..." is printed
\* after a truthy cookie token: token and params are bound, the second
\* request is not sent.
GdriveFirstResponseInterrupted(jar) ==
    /\ pc = "gdrive_get1"
    /\ Truthy(cookie_token(jar))
    /\ response' = [cookies |-> jar, text |-> <<>>]
    /\ token' = cookie_token(jar)
    /\ params' = second_params(file_id.val, token')
    /\ HandshakeInterrupted("confirm")
    /\ UNCHANGED <<config, tool_locals, file, file_id, content_type, dl_error,
                   probe_result, stream_locals>>

\* A KeyboardInterrupt is raised after response.text returned body: while
\* "Found confirmation token" is printed (a match, params not bound yet) or
\* while "Starting download..." is printed (params bound).
GdriveFirstTextInterrupted(body, bound) ==
    /\ pc = "gdrive_text"
    /\ response' = [response EXCEPT !.text = body]
    /\ token' = select_token(response.cookies, body)
    /\ IF bound
       THEN params' = second_params(file_id.val, token')
       ELSE /\ Truthy(token')
            /\ UNCHANGED params
    /\ HandshakeInterrupted("confirm")
    /\ UNCHANGED <<config, tool_locals, file, file_id, content_type, dl_error,
                   probe_result, stream_locals>>


\* Faulty variant of GdriveRequestError: the handler returns False without calling
\* the alternative.
GdriveRequestErrorFails ==
    /\ pc \in {"gdrive_get1", "gdrive_text", "gdrive_get2"}
    /\ dl_error' = pc
    /\ DownloadReturns("False", "Download error")
    /\ UNCHANGED <<config, tool_locals, file, file_id, token, params, content_type, response,
                   fb_result, probe_result, stream_locals, counters, cancelled>>

\* "except Exception" of download_from_gdrive while a request is in flight
\* (session.get or response.text raised): the alternative is called.  The
\* locals bound so far stay bound.
GdriveRequestError ==
    /\ pc \in {"gdrive_get1", "gdrive_text", "gdrive_get2"}
    /\ dl_error' = pc
    /\ AlternativeStarts
    /\ UNCHANGED <<config, tool_locals, file, file_id, token, params, content_type, response,
                   probe_result, stream_locals, cancelled>>

\* A KeyboardInterrupt is raised while the handler prints "Download error"
\* (the alternative is not called) or while the alternative it called prints.
GdriveRequestErrorInterrupted(called) ==
    /\ pc \in {"gdrive_get1", "gdrive_text", "gdrive_get2"}
    /\ dl_error' = pc
    /\ IF called THEN AlternativeInterrupted ELSE HandshakeInterrupted("gdrive_error")
    /\ UNCHANGED <<config, tool_locals, file, file_id, token, params, content_type, response,
                   probe_result, stream_locals>>


\* int(response.headers.get('content-length', 0)): 0 when the header is
\* missing; ok = FALSE is ValueError.
total_size_of(length) ==
    IF length.isNone THEN [ok |-> TRUE, val |-> 0] ELSE ParseInt(length.val)

\* The headers of the second response arrived (response is rebound), with
\* Content-Type ct and Content-Length length.  An HTML content type calls
\* the alternative; a length int() rejects raises ValueError, which the
\* handler turns into a call of the alternative; otherwise the size (or
\* that it is unknown) is printed and the file is opened for writing
\* (truncated).
GdriveSecondResponse(ct, length) ==
    /\ pc = "gdrive_get2"
    /\ content_type' = Some(IF ct.isNone THEN <<>> ELSE ct.val)
    /\ response' = NoResponse
    /\ UNCHANGED <<config, tool_locals, file_id, token, params, probe_result,
                   stream_locals, cancelled>>
    /\ IF is_html(content_type'.val)
       THEN /\ AlternativeStarts
            /\ UNCHANGED <<file, dl_error>>
       ELSE IF ~total_size_of(length).ok
       THEN /\ dl_error' = pc
            /\ AlternativeStarts
            /\ UNCHANGED file
       ELSE /\ file' = [exists |-> TRUE, size |-> 0, writer |-> "gdrive"]
            /\ Goto("gdrive_body",
                    IF total_size_of(length).val > 0 THEN "File size" ELSE "Downloading...")
            /\ UNCHANGED <<dl_error, fb_result, dl_result, counters>>

\* A KeyboardInterrupt is raised after the headers of the second response
\* arrived: while "Got HTML response", the file size or the ValueError of
\* int() is printed (called = FALSE), or while the alternative that the HTML
\* type or the ValueError called prints (called = TRUE).  The file is not
\* opened yet.
GdriveSecondResponseInterrupted(ct, length, called) ==
    /\ pc = "gdrive_get2"
    /\ content_type' = Some(IF ct.isNone THEN <<>> ELSE ct.val)
    /\ response' = NoResponse
    /\ UNCHANGED <<config, tool_locals, file, file_id, token, params, probe_result,
                   stream_locals>>
    /\ IF is_html(content_type'.val)
       THEN /\ IF called THEN AlternativeInterrupted
                         ELSE HandshakeInterrupted("gdrive_headers")
            /\ UNCHANGED dl_error
       ELSE IF ~total_size_of(length).ok
       THEN /\ dl_error' = pc
            /\ IF called THEN AlternativeInterrupted
                         ELSE HandshakeInterrupted("gdrive_error")
       ELSE /\ ~called
            /\ HandshakeInterrupted("gdrive_headers")
            /\ UNCHANGED dl_error


\* The body was written completely: a file under the threshold calls the
\* alternative, any other is accepted.
GdriveBodyDone(size) ==
    /\ pc = "gdrive_body"
    /\ file' = [file EXCEPT !.size = size]
    /\ UNCHANGED <<config, tool_locals, download_locals, probe_result, stream_locals, cancelled>>
    /\ IF gdrive_too_small(size)
       THEN AlternativeStarts
       ELSE /\ DownloadReturns("True", "Download complete")
            /\ UNCHANGED <<fb_result, counters>>

\* iter_content or f.write raised after size bytes were written.
GdriveBodyError(size) ==
    /\ pc = "gdrive_body"
    /\ file' = [file EXCEPT !.size = size]
    /\ dl_error' = pc
    /\ AlternativeStarts
    /\ UNCHANGED <<config, tool_locals, file_id, token, params, content_type, response,
                   probe_result, stream_locals, cancelled>>

\* A KeyboardInterrupt is raised while the alternative prints, called for a
\* completely written file under the threshold.
GdriveBodyDoneInterrupted(size) ==
    /\ pc = "gdrive_body"
    /\ gdrive_too_small(size)
    /\ file' = [file EXCEPT !.size = size]
    /\ AlternativeInterrupted
    /\ UNCHANGED <<config, tool_locals, download_locals, probe_result, stream_locals>>

\* A KeyboardInterrupt is raised after iter_content or f.write raised: while
\* the handler prints "Download error" or while the alternative it called
\* prints.
GdriveBodyErrorInterrupted(size, called) ==
    /\ pc = "gdrive_body"
    /\ file' = [file EXCEPT !.size = size]
    /\ dl_error' = pc
    /\ IF called THEN AlternativeInterrupted ELSE HandshakeInterrupted("gdrive_error")
    /\ UNCHANGED <<config, tool_locals, file_id, token, params, content_type, response,
                   probe_result, stream_locals>>


(* -------------------- run: verification and probe --------------------- *)

\* run after download_video returned: the three checks, then ffprobe is run.
VerifyFile ==
    /\ pc = "downloaded"
    /\ UNCHANGED <<config, probe_outcome, file, probe_result, stream_locals, requests_sent,
                   fallbacks, launches, terminations, slept, cancelled>>
    /\ IF dl_result # "True"
       THEN /\ RunReturns(FALSE, "Failed to download video")
            /\ UNCHANGED <<download_locals, fb_result, dl_result, gdown_rc, tool_runs>>
       ELSE IF ~file.exists
       THEN /\ RunReturns(FALSE, "Video file not found after download")
            /\ UNCHANGED <<download_locals, fb_result, dl_result, gdown_rc, tool_runs>>
       ELSE IF run_too_small(file.size)
       THEN /\ RunReturns(FALSE, "Video file too small - download failed")
            /\ UNCHANGED <<download_locals, fb_result, dl_result, gdown_rc, tool_runs>>
       ELSE /\ tool_runs' = tool_runs + 1
            /\ Goto("ffprobe", "Video file size")
            /\ file_id' = None
            /\ token' = None
            /\ params' = NoParams
            /\ content_type' = None
            /\ response' = NoResponse
            /\ dl_error' = "none"
            /\ fb_result' = "unset"
            /\ dl_result' = "unset"
            /\ gdown_rc' = <<>>

\* Faulty variant of ProbeDone: only the parse error is caught, a timeout or
\* a missing tool reaches main.
ProbeDoneTimeoutEscapes(outcome) ==
    /\ pc = "ffprobe"
    /\ probe_outcome' = outcome
    /\ UNCHANGED <<config, gdown_rc, file, download_locals, fb_result, dl_result,
                   stream_locals, counters>>
    /\ IF outcome = "timeout"
       THEN /\ MainException
            /\ UNCHANGED probe_result
       ELSE /\ probe_result' = (IF outcome = "duration" THEN "duration" ELSE "None")
            /\ Goto("probed", "Video duration")
            /\ UNCHANGED cancelled

\* get_video_duration: ffprobe printed a number ("duration"), ended with a
\* non-zero status, printed something float() rejects, or subprocess.run
\* raised (timeout, tool missing).  Everything but the first returns None.
ProbeDone(outcome) ==
    /\ pc = "ffprobe"
    /\ probe_outcome' = outcome
    /\ probe_result' = (IF outcome = "duration" THEN "duration" ELSE "None")
    /\ Goto("probed",
            IF outcome = "duration" THEN "Video duration"
            ELSE IF outcome = "nonzero" THEN "Video file size"
            ELSE "Could not determine duration")
    /\ UNCHANGED <<config, gdown_rc, file, download_locals, fb_result, dl_result,
                   stream_locals, counters, cancelled>>

\* A KeyboardInterrupt is raised while get_video_duration prints the
\* duration or, in its handler, that there is none: nothing is returned.
ProbeDoneInterrupted(outcome) ==
    /\ pc = "ffprobe"
    /\ outcome # "nonzero"
    /\ probe_outcome' = outcome
    /\ Interrupted("probe_done")
    /\ UNCHANGED <<config, gdown_rc, file, download_locals, fb_result, dl_result,
                   probe_result, stream_locals, counters>>


(* --------------------------- start_streaming -------------------------- *)

\* Faulty variant of loop_continues: "<=" in place of "<".
loop_continues_inclusive(a) == a <= MaxAttempts

\* "while attempt < 999"
loop_continues(a) == a < MaxAttempts

\* "attempt += 1"
next_attempt(a) == a + 1

\* The top of the while loop with attempt = a: another session is launched,
\* or the loop ends, start_streaming returns True, run prints the closing
\* line and returns True.
LoopTop(a) ==
    IF loop_continues(a)
    THEN /\ launches' = launches + 1
         /\ Goto("ffmpeg", "Stream session")
         /\ UNCHANGED ss_result
    ELSE /\ ss_result' = "True"
         /\ RunReturns(TRUE, "=== Stream Session Complete ===")
         /\ UNCHANGED launches

\* start_streaming up to the first launch: the plan is derived (a
\* ValueError from int() reaches main's "except Exception"), attempt = 0.
StartStreaming ==
    /\ pc = "probed"
    /\ probe_result' = "unset"
    /\ probe_outcome' = "unset"
    /\ UNCHANGED <<config, gdown_rc, file, download_locals, fb_result, dl_result,
                   returncode, requests_sent, tool_runs, fallbacks,
                   terminations, slept>>
    /\ LET p == encoding_plan(quality, aspect_ratio)
       IN IF ~p.ok
          THEN /\ MainException
               /\ UNCHANGED <<plan, attempt, ss_result, launches>>
          ELSE /\ plan' = p
               /\ attempt' = 0
               /\ LoopTop(0)
               /\ UNCHANGED cancelled

\* After the try statement: "attempt += 1", then time.sleep(retry_delay).
Restarting(msg) ==
    /\ attempt' = next_attempt(attempt)
    /\ terminations' = terminations + 1
    /\ Goto("sleep", msg)

\* subprocess.run(ffmpeg_cmd) returned: the encoder exited with code.
EncoderExit(code) ==
    /\ pc = "ffmpeg"
    /\ returncode' = <<code>>
    /\ Restarting("Stream ended, restarting...")
    /\ UNCHANGED <<config, tool_locals, file, download_locals, fb_result, dl_result,
                   probe_result, plan, ss_result, requests_sent, tool_runs,
                   fallbacks, launches, slept, cancelled>>

\* Faulty variant of EncoderError: no "except Exception", the error reaches main.
EncoderErrorEscapes ==
    /\ pc = "ffmpeg"
    /\ MainException
    /\ UNCHANGED <<config, tool_locals, file, download_locals, fb_result, dl_result,
                   probe_result, stream_locals, counters>>

\* subprocess.run(ffmpeg_cmd) raised: "except Exception" logs it.
EncoderError ==
    /\ pc = "ffmpeg"
    /\ Restarting("Stream error")
    /\ UNCHANGED <<config, tool_locals, file, download_locals, fb_result, dl_result,
                   probe_result, plan, returncode, ss_result, requests_sent,
                   tool_runs, fallbacks, launches, slept, cancelled>>

\* time.sleep returned: back to the top of the loop.
SleepDone ==
    /\ pc = "sleep"
    /\ slept' = slept + RetryDelay
    /\ LoopTop(attempt)
    /\ UNCHANGED <<config, tool_locals, file, download_locals, fb_result, dl_result,
                   probe_result, plan, attempt, returncode, requests_sent,
                   tool_runs, fallbacks, terminations, cancelled>>

(* ------------------------- KeyboardInterrupt -------------------------- *)

\* The blocking calls.  The program spends its time in them and in the calls
\* of print_status, and a KeyboardInterrupt is raised in one of the two; the
\* code between them is treated as running to completion.
Blocking == {"direct_get", "direct_body", "gdrive_get1", "gdrive_text", "gdrive_get2",
             "gdrive_body", "pip_install", "gdown", "ffprobe", "ffmpeg", "sleep"}

\* The positions whose state a KeyboardInterrupt can find as it is: a
\* blocking call, and the prints of run and start_streaming that come before
\* anything is assigned ("main": up to the first request or to file_id;
\* "downloaded": the checks of run; "probed": the first lines of
\* start_streaming).
Interruptible == Blocking \cup {"main", "downloaded", "probed"}

\* Faulty variant of StreamKeyboardInterrupt: the interrupt is swallowed like any
\* other error and the loop goes on.
StreamKeyboardInterruptSwallowed(raised) ==
    /\ Goto("sleep", "Stream error")
    /\ cancelled' = raised
    /\ UNCHANGED ss_result

\* start_streaming: "except KeyboardInterrupt" prints and returns True; run
\* then prints the closing line and returns True.  A KeyboardInterrupt raised
\* while the handler prints, or while run prints the closing line, reaches
\* main.  raised lists where the interrupts were raised, the one being
\* handled last.
StreamKeyboardInterrupt(raised) ==
    \/ /\ ss_result' = "True"
       /\ cancelled' = raised
       /\ RunReturns(TRUE, "=== Stream Session Complete ===")
    \/ /\ UNCHANGED ss_result
       /\ MainKeyboardInterrupt(Append(raised, "stream_handler"))
    \/ /\ ss_result' = "True"
       /\ MainKeyboardInterrupt(Append(raised, "completing"))

\* A KeyboardInterrupt is raised in start_streaming after the plan is
\* derived: before the loop while the plan is printed, or inside the try
\* statement while "Stream session 1" is printed, before the first launch.
StartStreamingInterrupted(inside) ==
    /\ pc = "probed"
    /\ encoding_plan(quality, aspect_ratio).ok
    /\ probe_result' = "unset"
    /\ probe_outcome' = "unset"
    /\ plan' = encoding_plan(quality, aspect_ratio)
    /\ IF inside
       THEN StreamKeyboardInterrupt(Append(cancelled, "session"))
       ELSE /\ Interrupted("planned")
            /\ UNCHANGED ss_result
    /\ UNCHANGED <<config, gdown_rc, file, download_locals, fb_result, dl_result,
                   attempt, returncode, counters>>

\* A KeyboardInterrupt is raised while "Stream ended" is printed, inside the
\* try statement: the encoder has returned, attempt is not incremented.
EncoderExitInterrupted(code) ==
    /\ pc = "ffmpeg"
    /\ returncode' = <<code>>
    /\ terminations' = terminations + 1
    /\ StreamKeyboardInterrupt(Append(cancelled, "stream_ended"))
    /\ UNCHANGED <<config, tool_locals, file, download_locals, fb_result, dl_result,
                   probe_result, plan, attempt, requests_sent, tool_runs, fallbacks,
                   launches, slept>>

\* A KeyboardInterrupt is raised while "except Exception" prints "Stream
\* error": raised inside a handler, it is not caught by the try statement.
EncoderErrorInterrupted ==
    /\ pc = "ffmpeg"
    /\ terminations' = terminations + 1
    /\ Interrupted("stream_error")
    /\ UNCHANGED <<config, tool_locals, file, download_locals, fb_result, dl_result,
                   probe_result, stream_locals, requests_sent, tool_runs, fallbacks,
                   launches, slept>>

\* A KeyboardInterrupt is raised after time.sleep returned: inside the try
\* statement while the next "Stream session" is printed, before the launch,
\* or, the loop being over, while run prints the closing line.
SleepDoneInterrupted ==
    /\ pc = "sleep"
    /\ slept' = slept + RetryDelay
    /\ IF loop_continues(attempt)
       THEN StreamKeyboardInterrupt(Append(cancelled, "session"))
       ELSE /\ ss_result' = "True"
            /\ Interrupted("completing")
    /\ UNCHANGED <<config, tool_locals, file, download_locals, fb_result, dl_result,
                   probe_result, plan, attempt, returncode, requests_sent,
                   tool_runs, fallbacks, launches, terminations>>

\* What is on disk when a KeyboardInterrupt ends the blocking call: a body
\* being written stays with the size bytes written so far, gdown may have
\* written a file, any other call leaves the file as it is.
AfterInterrupt(wrote, size) ==
    IF pc \in {"direct_body", "gdrive_body"} THEN [file EXCEPT !.size = size]
    ELSE IF pc = "gdown" THEN AfterGdown(wrote, size)
    ELSE file

\* Faulty variant of KeyboardInterrupt: the handler of download_from_gdrive
\* catches the interrupt like an error and calls the alternative.
KeyboardInterruptCaughtByHandshake(wrote, size) ==
    /\ pc \in Interruptible
    /\ file' = AfterInterrupt(wrote, size)
    /\ IF pc \in {"gdrive_get1", "gdrive_text", "gdrive_get2", "gdrive_body"}
       THEN /\ cancelled' = Append(cancelled, pc)
            /\ AlternativeStarts
            /\ UNCHANGED <<config, tool_locals, download_locals, probe_result,
                           stream_locals>>
       ELSE /\ IF pc = "ffmpeg"
               THEN StreamKeyboardInterrupt(Append(cancelled, pc))
               ELSE /\ Interrupted(pc)
                    /\ UNCHANGED ss_result
            /\ UNCHANGED <<config, tool_locals, download_locals, fb_result, dl_result,
                           probe_result, plan, attempt, returncode, counters>>

\* A KeyboardInterrupt is raised at pc.  Only the try statement around the
\* encoder names it; "except Exception" does not catch it, so from anywhere
\* else it reaches main.
KeyboardInterrupt(wrote, size) ==
    /\ pc \in Interruptible
    /\ file' = AfterInterrupt(wrote, size)
    /\ IF pc = "ffmpeg"
       THEN StreamKeyboardInterrupt(Append(cancelled, pc))
       ELSE /\ Interrupted(pc)
            /\ UNCHANGED ss_result
    /\ UNCHANGED <<config, tool_locals, download_locals, fb_result, dl_result,
                   probe_result, plan, attempt, returncode, counters>>

Next ==
    \/ Run
    \/ \E ok \in BOOLEAN : DirectResponse(ok)
    \/ \E size \in Sizes : DirectBodyDone(size)
    \/ \E size \in Sizes : DirectBodyError(size)
    \/ \E jar \in Jars : GdriveFirstResponse(jar)
    \/ \E body \in Bodies : GdriveFirstText(body)
    \/ GdriveRequestError
    \/ \E ct \in ContentTypes, length \in ContentLengths : GdriveSecondResponse(ct, length)
    \/ \E size \in Sizes : GdriveBodyDone(size)
    \/ \E size \in Sizes : GdriveBodyError(size)
    \/ \E ok \in BOOLEAN : PipDone(ok)
    \/ \E rc \in ExitCodes, wrote \in BOOLEAN, size \in Sizes : GdownDone(rc, wrote, size)
    \/ \E wrote \in BOOLEAN, size \in Sizes : GdownError(wrote, size)
    \/ VerifyFile
    \/ \E outcome \in ProbeOutcomes : ProbeDone(outcome)
    \/ StartStreaming
    \/ \E code \in ExitCodes : EncoderExit(code)
    \/ EncoderError
    \/ SleepDone
    \/ \E wrote \in BOOLEAN, size \in Sizes : KeyboardInterrupt(wrote, size)
    \/ RunInterrupted
    \/ \E size \in Sizes : DirectErrorInterrupted(size)
    \/ \E jar \in Jars : GdriveFirstResponseInterrupted(jar)
    \/ \E body \in Bodies, bound \in BOOLEAN : GdriveFirstTextInterrupted(body, bound)
    \/ \E called \in BOOLEAN : GdriveRequestErrorInterrupted(called)
    \/ \E ct \in ContentTypes, length \in ContentLengths, called \in BOOLEAN :
           GdriveSecondResponseInterrupted(ct, length, called)
    \/ \E size \in Sizes : GdriveBodyDoneInterrupted(size)
    \/ \E size \in Sizes, called \in BOOLEAN : GdriveBodyErrorInterrupted(size, called)
    \/ \E rc \in ExitCodes, wrote \in BOOLEAN, size \in Sizes :
           GdownDoneInterrupted(rc, wrote, size)
    \/ \E outcome \in ProbeOutcomes : ProbeDoneInterrupted(outcome)
    \/ \E inside \in BOOLEAN : StartStreamingInterrupted(inside)
    \/ \E code \in ExitCodes : EncoderExitInterrupted(code)
    \/ EncoderErrorInterrupted
    \/ SleepDoneInterrupted

Spec == Init /\ [][Next]_vars

TypeOK ==
    /\ pc \in Interruptible \cup {"exited"}
    /\ exit_status \in {-1, 0, 1, InterruptedStatus}
    /\ attempt \in 0..MaxAttempts
    /\ file.size \in Sizes
    /\ dl_result \in {"unset", "True", "False"}
    /\ fb_result \in {"unset", "True", "False"}

(* ============================== claims ================================ *)

\* C1: when the encoder call has ended N times (N below the ceiling) and a
\* KeyboardInterrupt then arrives while the next encoder process runs, the
\* run is over at once with attempt = N and N + 1 launches (N restarts);
\* that interrupt being the only one, start_streaming returned True and the
\* exit status is 0.
C1_RestartsThenCancel ==
    (cancelled # <<>> /\ cancelled[1] = "ffmpeg") =>
        /\ pc = "exited"
        /\ terminations < MaxAttempts
        /\ attempt = terminations
        /\ launches = terminations + 1
        /\ Len(cancelled) = 1 =>
               /\ ss_result = "True"
               /\ run_result = "True"
               /\ exit_status = 0

C1_Witness ==
    /\ cancelled = <<"ffmpeg">>
    /\ pc = "exited"
    /\ terminations = 3
    /\ returncode = <<1>>

\* C2: while video.mp4 is missing or smaller than 10,000 bytes the encoder
\* has never been launched, and a run that ends with such a file ends in
\* failure (status 1) unless it was cancelled.
C2_SmallFileNeverStreamed ==
    (~file.exists \/ file.size < MinFileSize) =>
        /\ launches = 0
        /\ pc \notin {"ffprobe", "probed", "ffmpeg", "sleep"}
        /\ (pc = "exited" /\ cancelled = <<>> => exit_status = 1)

C2_Witness ==
    /\ pc = "exited"
    /\ file.writer = "direct"
    /\ file.size = MinFileSize - 1
    /\ dl_result = "True"
    /\ last_msg = "Video file too small - download failed"

FailureMessages ==
    {"ERROR: YOUTUBE_STREAM_KEY not set", "ERROR: VIDEO_URL not set",
     "Failed to download video", "Video file not found after download",
     "Video file too small - download failed", "Fatal error"}

\* C3: a finished run has status 0 or 1; it is 0 exactly when the run was
\* cancelled or the supervisor loop ended at its ceiling, and 1 exactly when
\* the run ended on a missing key or URL, a failed download, a missing or
\* undersized file, or an unexpected internal error.
C3_ExitStatus ==
    pc = "exited" =>
        /\ exit_status \in {0, 1}
        /\ (exit_status = 0) <=>
               (cancelled # <<>> \/ (attempt = MaxAttempts /\ ss_result = "True"))
        /\ (exit_status = 1) <=> (last_msg \in FailureMessages)

IsEmpty(setting) == setting.isNone \/ setting.val = <<>>

\* C4: when the stream key or the source URL is missing or empty, no HTTP
\* request has been issued and no subprocess (pip, gdown, ffprobe, ffmpeg)
\* has been run, and the run, unless it is cancelled, ends with status 1.
C4_NoActivityWithoutConfig ==
    (IsEmpty(stream_key) \/ IsEmpty(video_url)) =>
        /\ requests_sent = 0
        /\ tool_runs = 0
        /\ launches = 0
        /\ pc \in {"main", "exited"}
        /\ (pc = "exited" /\ cancelled = <<>> => exit_status = 1 /\ run_result = "False")

C4_Witness ==
    /\ pc = "exited"
    /\ stream_key = Some(KeyValue)
    /\ video_url = Some(<<>>)
    /\ exit_status = 1
    /\ last_msg = "ERROR: VIDEO_URL not set"

\* C5: a KeyboardInterrupt that arrives while the supervisor waits for the
\* encoder or sleeps before a restart, or while it prints in between, ends
\* the run in that step without another launch, and with status 0 when it
\* is the only one; once cancelled, nothing is launched.
C5_CancelStopsLoop ==
    [][ /\ (pc \in {"ffmpeg", "sleep"} /\ cancelled' # cancelled) =>
              /\ pc' = "exited"
              /\ launches' = launches
              /\ Len(cancelled') = 1 => exit_status' = 0
        /\ (cancelled # <<>>) => (launches' = launches /\ pc' = "exited")
      ]_vars

C5_Witness ==
    /\ pc = "exited"
    /\ cancelled = <<"sleep">>
    /\ exit_status = 0
    /\ attempt = 2
    /\ launches = 2

\* C6: without cancellation, every return of the encoder call (any exit
\* code) and every error it raises adds exactly one to attempt and goes to
\* the 5-second sleep, without ending the run; after the sleep the encoder
\* is launched again while attempt is below the ceiling.
C6_ExitsAreTransient ==
    [][ /\ (pc = "ffmpeg" /\ cancelled' = cancelled) =>
              /\ attempt' = attempt + 1
              /\ pc' = "sleep"
              /\ launches' = launches
              /\ exit_status' = exit_status
        /\ (pc = "sleep" /\ cancelled' = cancelled) =>
              /\ slept' = slept + RetryDelay
              /\ attempt' = attempt
              /\ (attempt < MaxAttempts =>
                     pc' = "ffmpeg" /\ launches' = launches + 1)
      ]_vars

C6_Witness ==
    /\ pc = "ffmpeg"
    /\ attempt = 2
    /\ returncode = <<>>
    /\ last_msg = "Stream session"
    /\ slept = 2 * RetryDelay

\* C7: the encoder is launched at most 999 times; a run whose attempt counter
\* reached 999 without cancellation has ended with start_streaming and run
\* returning True and status 0, as after a cancellation of the encoder.
C7_Ceiling ==
    /\ launches <= MaxAttempts
    /\ attempt <= MaxAttempts
    /\ (attempt = MaxAttempts /\ cancelled = <<>> /\ pc # "sleep") =>
           /\ pc = "exited"
           /\ ss_result = "True"
           /\ run_result = "True"
           /\ exit_status = 0
           /\ last_msg = "=== Stream Session Complete ==="

C7_Witness ==
    /\ pc = "exited"
    /\ attempt = MaxAttempts
    /\ launches = MaxAttempts
    /\ cancelled = <<>>
    /\ exit_status = 0

GdriveCalls == {"gdrive_get1", "gdrive_text", "gdrive_get2", "gdrive_body"}

DirectCalls == {"direct_get", "direct_body"}

\* C8 as stated: whenever a download error was caught, on the direct path or
\* on the handshake path, the alternative has been called.
C8_Original == dl_error # "none" => fallbacks >= 1

\* A KeyboardInterrupt was raised at position where.
RaisedAt(where) == \E n \in 1..Len(cancelled) : cancelled[n] = where

\* C8 as amended: an error caught on the handshake path calls the alternative
\* and the download returns what the alternative returns; an error caught on
\* the direct path makes the download return False without the alternative;
\* in both cases the error stays inside download_video.  Only a
\* KeyboardInterrupt raised while the handler prints the error keeps it from
\* going on.
C8_ErrorsAreCaught ==
    /\ dl_error \in GdriveCalls =>
           /\ fallbacks >= 1 \/ RaisedAt("gdrive_error")
           /\ pc \in {"pip_install", "gdown", "downloaded", "exited"}
           /\ (pc = "downloaded" => fb_result # "unset" /\ dl_result = fb_result)
    /\ dl_error \in DirectCalls =>
           /\ fallbacks = 0
           /\ tool_runs = 0
           /\ dl_result = "False" \/ RaisedAt("direct_error")
           /\ pc \in {"downloaded", "exited"}
    /\ dl_error # "none" =>
           /\ last_msg # "Fatal error"
           /\ (pc = "exited" /\ cancelled = <<>> =>
                  last_msg = "Failed to download video" /\ exit_status = 1)

C8_Witness ==
    /\ dl_error = "gdrive_get2"
    /\ pc = "downloaded"
    /\ fallbacks = 1
    /\ dl_result = "True"
    /\ file.writer = "gdown"

HtmlTypes == {Some(CtHtml), Some(CtHtmlCharset)}

\* C9: when the second response of the handshake has an HTML content type,
\* the handshake writes nothing to video.mp4, the alternative is called
\* (unless a KeyboardInterrupt is raised while "Got HTML response" is
\* printed), and the download returns what the alternative returned.
C9_HtmlGoesToAlternative ==
    content_type \in HtmlTypes =>
        /\ file.writer # "gdrive"
        /\ fallbacks >= 1 \/ RaisedAt("gdrive_headers")
        /\ pc \in {"pip_install", "gdown", "downloaded", "exited"}
        /\ (pc = "downloaded" => fb_result # "unset" /\ dl_result = fb_result)

C9_Witness ==
    /\ content_type = Some(CtHtmlCharset)
    /\ pc = "downloaded"
    /\ dl_error = "none"
    /\ fb_result = "False"
    /\ dl_result = "False"
    /\ file = NoFile

\* Positions of the cookies whose name starts with "download_warning".
WarningCookies(jar) == {n \in 1..Len(jar) : StartsWith(jar[n][1], WarningPrefix)}

BodyToken(body) == ReSearchGroup(ConfirmEq, TokenClass, body)

\* C10 as stated: the second request carries the value of a download_warning
\* cookie whenever the first response has one, else the token of the body,
\* else the placeholder "t".
C10_Original ==
    pc = "gdrive_get2" =>
        LET jar == response.cookies
            warn == WarningCookies(jar)
            fromBody == BodyToken(response.text)
        IN /\ ~params.confirm.isNone
           /\ IF warn # {}
              THEN \E n \in warn : params.confirm.val = jar[n][2]
              ELSE IF ~fromBody.isNone
              THEN params.confirm.val = fromBody.val
              ELSE params.confirm.val = GenericToken

\* C10 as amended: the second request carries the value of the first
\* download_warning cookie when that value is not empty (the body is not
\* even read then), else the token of the body, else the placeholder "t";
\* it always carries a confirm parameter.
C10_TokenPriority ==
    pc = "gdrive_get2" =>
        LET jar == response.cookies
            warn == WarningCookies(jar)
            first == CHOOSE n \in warn : \A m \in warn : n <= m
            fromBody == BodyToken(response.text)
        IN /\ ~params.confirm.isNone
           /\ params.id = Some(file_id.val)
           /\ IF warn # {} /\ jar[first][2] # <<>>
              THEN params.confirm.val = jar[first][2]
              ELSE IF ~fromBody.isNone
              THEN params.confirm.val = fromBody.val
              ELSE params.confirm.val = GenericToken

C10_Witness ==
    /\ pc = "gdrive_get2"
    /\ response.cookies = <<<<CookieNid, TokOther>>, <<CookieWarn1, TokCookie>>, <<CookieWarn2, TokCookie2>>>>
    /\ response.text = <<>>
    /\ token = Some(TokCookie)
    /\ params.confirm = Some(TokCookie)

\* C11: download_gdrive_alternative returns True exactly when gdown returned
\* exit status 0 and video.mp4 exists with more than 10,000 bytes; after it
\* returned False (non-zero status, timeout, launch or install failure,
\* undersized file) the download has failed, the encoder is never launched
\* and the run, unless it is cancelled, ends with status 1.
C11_AlternativeSuccess ==
    /\ fb_result # "unset" =>
           ((fb_result = "True") <=>
               (gdown_rc = <<0>> /\ file.exists /\ file.size > MinFileSize))
    /\ fb_result = "False" =>
           /\ dl_result = "False"
           /\ launches = 0
           /\ pc \in {"downloaded", "exited"}
           /\ (pc = "exited" /\ cancelled = <<>> =>
                  exit_status = 1 /\ last_msg = "Failed to download video")

C11_Witness ==
    /\ pc = "exited"
    /\ fb_result = "False"
    /\ gdown_rc = <<0>>
    /\ file = [exists |-> TRUE, size |-> MinFileSize, writer |-> "gdown"]
    /\ exit_status = 1

\* C12: whatever the outcome of ffprobe (non-zero status, unparseable
\* output, timeout or missing tool), get_video_duration returns (None unless
\* a duration was parsed) without ending the run, and start_streaming then
\* derives the plan and launches the first session whatever was returned.
C12_ProbeNeverFails ==
    [][ /\ (pc = "ffprobe" /\ cancelled' = cancelled) =>
              /\ pc' = "probed"
              /\ exit_status' = exit_status
              /\ probe_result' \in {"duration", "None"}
              /\ (probe_outcome' # "duration" => probe_result' = "None")
        /\ (pc = "probed" /\ cancelled' = cancelled
                /\ encoding_plan(quality, aspect_ratio).ok) =>
              /\ pc' = "ffmpeg"
              /\ attempt' = 0
              /\ launches' = 1
              /\ plan' = encoding_plan(quality, aspect_ratio)
      ]_vars

C12_Witness ==
    /\ pc = "probed"
    /\ probe_outcome = "timeout"
    /\ probe_result = "None"
    /\ last_msg = "Could not determine duration"

(* ================= the encoding plan as a pure function =============== *)

Quality360 == <<"3", "6", "0", "p">>

Quality480 == <<"4", "8", "0", "p">>

Quality1080 == <<"1", "0", "8", "0", "p">>

Quality1440 == <<"1", "4", "4", "0", "p">>

Quality2160 == <<"2", "1", "6", "0", "p">>

QualityNoUnit == <<"7", "2", "0">>

QualityUnitFirst == <<"p", "4", "8", "0">>

QualityNegative == <<"-", "4", "8", "0", "p">>

QualityUnitOnly == <<"p">>

QualityPadded == <<"\r", "7", "2", "0", "p">>

QualityOtherScript == <<"۷", "2", "0", "p">>

Aspect219 == <<"2", "1", ":", "9">>

\* VIDEO_QUALITY values: the six tiers and strings of other shapes.
PlanQualities ==
    {Quality360, Quality480, Quality720, Quality1080, Quality1440, Quality2160,
     QualityBest, QualityHdp, QualityNoUnit, QualityUnitFirst, QualityNegative,
     QualityUnitOnly, QualityPadded, QualityOtherScript, <<>>}

\* ASPECT_RATIO values: the four of the if/elif chain and two others.
PlanAspects == {Aspect169, Aspect916, Aspect43, Aspect11, Aspect219, <<>>}

\* run just after get_video_duration returned, for a direct URL whose
\* download was accepted, with any quality and aspect ratio configured.
PlanInit ==
    /\ stream_key = Some(KeyValue)
    /\ video_url = Some(UrlDirect)
    /\ quality \in PlanQualities
    /\ aspect_ratio \in PlanAspects
    /\ pc = "probed"
    /\ file = [exists |-> TRUE, size |-> MinFileSize + SizeSlack, writer |-> "direct"]
    /\ file_id = None
    /\ token = None
    /\ params = NoParams
    /\ content_type = None
    /\ response = NoResponse
    /\ dl_error = "none"
    /\ fb_result = "unset"
    /\ dl_result = "unset"
    /\ probe_outcome \in ProbeOutcomes
    /\ probe_result = (IF probe_outcome = "duration" THEN "duration" ELSE "None")
    /\ gdown_rc = <<>>
    /\ plan = NoPlan
    /\ attempt = 0
    /\ returncode = <<>>
    /\ ss_result = "unset"
    /\ run_result = "unset"
    /\ exit_status = -1
    /\ last_msg = (IF probe_outcome = "duration" THEN "Video duration"
                   ELSE IF probe_outcome = "nonzero" THEN "Video file size"
                   ELSE "Could not determine duration")
    /\ requests_sent = 1
    /\ tool_runs = 1
    /\ fallbacks = 0
    /\ launches = 0
    /\ terminations = 0
    /\ slept = 0
    /\ cancelled = <<>>

PlanNext == StartStreaming

PlanSpec == PlanInit /\ [][PlanNext]_vars

\* The shape "decimal digits followed by p".
ExpectedShape(q) ==
    /\ Len(q) >= 2
    /\ q[Len(q)] = "p"
    /\ \A n \in 1..(Len(q) - 1) : IsDigit(q[n])

\* C13 as stated: for every quality string that is not digits followed by
\* "p", start_streaming does not fail and launches the encoder with the
\* default plan 1280x720 at 2500k.
C13_DefaultPlan ==
    (~ExpectedShape(quality) /\ pc # "probed") =>
        /\ last_msg # "Fatal error"
        /\ pc = "ffmpeg"
        /\ plan.width = 1280
        /\ plan.height = 720
        /\ plan.video_bitrate = <<"2", "5", "0", "0", "k">>

\* The tiers with their height and their bitrate in kbit/s.
Tiers ==
    {[q |-> Quality360, h |-> 360, rate |-> 800],
     [q |-> Quality480, h |-> 480, rate |-> 1200],
     [q |-> Quality720, h |-> 720, rate |-> 2500],
     [q |-> Quality1080, h |-> 1080, rate |-> 4500],
     [q |-> Quality1440, h |-> 1440, rate |-> 9000],
     [q |-> Quality2160, h |-> 2160, rate |-> 20000]}

\* Numerator and denominator of an aspect-ratio string, 16:9 when unknown.
RefRatio(aspect) ==
    IF aspect = Aspect916 THEN <<9, 16>>
    ELSE IF aspect = Aspect43 THEN <<4, 3>>
    ELSE IF aspect = Aspect11 THEN <<1, 1>>
    ELSE <<16, 9>>

\* floor(h * numerator / denominator), plus 1 if that is odd.
RefWidth(h, aspect) ==
    LET w == (h * RefRatio(aspect)[1]) \div RefRatio(aspect)[2]
    IN IF w % 2 = 1 THEN w + 1 ELSE w

\* C14: for each of the six tiers and any aspect-ratio string, the plan the
\* encoder is launched with has the tier's height, the reference width
\* (even), the tier's bitrate and twice that as bufsize; (1080p, 16:9) gives
\* 1920x1080, 4500k, 9000k and (360p, 9:16) gives width 202.
C14_PlanReference ==
    pc = "ffmpeg" =>
        /\ \A tier \in Tiers :
               quality = tier.q =>
                   /\ plan.height = tier.h
                   /\ plan.width = RefWidth(tier.h, aspect_ratio)
                   /\ plan.width % 2 = 0
                   /\ plan.video_bitrate = IntToStr(tier.rate) \o <<"k">>
                   /\ plan.bufsize = IntToStr(2 * tier.rate) \o <<"k">>
        /\ (quality = Quality1080 /\ aspect_ratio = Aspect169) =>
               /\ plan.width = 1920
               /\ plan.height = 1080
               /\ plan.video_bitrate = <<"4", "5", "0", "0", "k">>
               /\ plan.bufsize = <<"9", "0", "0", "0", "k">>
        /\ (quality = Quality360 /\ aspect_ratio = Aspect916) => plan.width = 202

C14_Witness ==
    /\ pc = "ffmpeg"
    /\ quality = Quality720
    /\ aspect_ratio = Aspect916
    /\ plan.width = 406
    /\ plan.height = 720

(* ===================== acquisition under timeouts ===================== *)

\* The blocking calls of the acquisition that a timeout bounds as a whole:
\* subprocess.run of pip install (timeout=60) and of gdown (timeout=1800),
\* which kills the tool and raises when the time is up.  No request is
\* bounded: the first handshake request, session.get(base_url,
\* params={'id': file_id}, stream=True), and the read of its body by
\* response.text are given no timeout; timeout=60 of the second request and
\* timeout=30 of the direct request limit the connect and each read of the
\* socket, not the call, so a host that keeps sending interim responses or
\* header bytes in time keeps the call from returning, and one that keeps
\* sending a few bytes of the body keeps the loop over
\* response.iter_content running.
TimedCalls == {"pip_install", "gdown"}

\* The acquisition part of the run: everything up to the return of
\* download_video.
AcqNext ==
    \/ Run
    \/ \E ok \in BOOLEAN : DirectResponse(ok)
    \/ \E size \in Sizes : DirectBodyDone(size)
    \/ \E size \in Sizes : DirectBodyError(size)
    \/ \E jar \in Jars : GdriveFirstResponse(jar)
    \/ \E body \in Bodies : GdriveFirstText(body)
    \/ GdriveRequestError
    \/ \E ct \in ContentTypes, length \in ContentLengths : GdriveSecondResponse(ct, length)
    \/ \E size \in Sizes : GdriveBodyDone(size)
    \/ \E size \in Sizes : GdriveBodyError(size)
    \/ \E ok \in BOOLEAN : PipDone(ok)
    \/ \E rc \in ExitCodes, wrote \in BOOLEAN, size \in Sizes : GdownDone(rc, wrote, size)
    \/ \E wrote \in BOOLEAN, size \in Sizes : GdownError(wrote, size)
    \/ \E wrote \in BOOLEAN, size \in Sizes : KeyboardInterrupt(wrote, size)
    \/ RunInterrupted
    \/ \E size \in Sizes : DirectErrorInterrupted(size)
    \/ \E jar \in Jars : GdriveFirstResponseInterrupted(jar)
    \/ \E body \in Bodies, bound \in BOOLEAN : GdriveFirstTextInterrupted(body, bound)
    \/ \E called \in BOOLEAN : GdriveRequestErrorInterrupted(called)
    \/ \E ct \in ContentTypes, length \in ContentLengths, called \in BOOLEAN :
           GdriveSecondResponseInterrupted(ct, length, called)
    \/ \E size \in Sizes : GdriveBodyDoneInterrupted(size)
    \/ \E size \in Sizes, called \in BOOLEAN : GdriveBodyErrorInterrupted(size, called)
    \/ \E rc \in ExitCodes, wrote \in BOOLEAN, size \in Sizes :
           GdownDoneInterrupted(rc, wrote, size)

\* A step the program is sure to take: its own code at "main", and the end
\* of a tool run, which returns or raises when its time is up.
TimedStep == (pc \in TimedCalls \cup {"main"}) /\ AcqNext

\* The runs that reach the acquisition: key and URL set, one URL of each kind.
AcqInit ==
    /\ Init
    /\ stream_key = Some(KeyValue)
    /\ video_url \in {Some(UrlDriveFile), Some(UrlDirect)}
    /\ quality = Quality720

\* A host may keep any request or body read from ending for ever; only the
\* tool runs, which a timeout bounds as a whole, are sure to end.
AcqFairSpec == AcqInit /\ [][AcqNext]_vars /\ WF_vars(TimedStep)

\* C15 as stated: every blocking call of the acquisition ends, so that
\* download_video always returns (or the run is cancelled).
C15_AcquisitionEnds ==
    (pc \in Blocking) ~> (pc \in {"downloaded", "exited"})

(* ---------------------- C16: the size boundary ------------------------ *)

\* The states in which run has accepted the working file: it passed the
\* three checks after download_video and the probe or the encoder follows.
Accepted == pc \in {"ffprobe", "probed", "ffmpeg", "sleep"}

\* C16: a file is accepted only if it is larger than the 10,000-byte
\* threshold, and the three checks agree on it: the handshake reports success
\* only for a file above the threshold, so does the alternative, and run goes
\* on to the probe only with a file above the threshold; a file of exactly
\* 10,000 bytes is accepted by none of them.
C16_BoundaryAgreement ==
    /\ (pc = "downloaded" /\ dl_result = "True" /\ fb_result = "unset"
            /\ file.writer = "gdrive")
         => file.size > MinFileSize
    /\ fb_result = "True" => file.size > MinFileSize
    /\ Accepted => file.size > MinFileSize

(* ------------------ C17: a Drive URL without identifier --------------- *)

\* The URLs classified as Drive URLs from which no identifier is extracted.
NoIdentifierUrls ==
    {u \in VideoUrls : /\ Truthy(u)
                       /\ is_google_drive_url(u.val)
                       /\ ~Truthy(extract_gdrive_id(u.val))}

\* The configured URL is a Drive URL from which no identifier is extracted,
\* and run has passed its validation.
NoIdentifier ==
    /\ pc # "main"
    /\ Truthy(stream_key)
    /\ video_url \in NoIdentifierUrls

\* C17: for a Drive URL without an extractable identifier the acquisition
\* fails at once: no request is sent, the alternative is not called, no tool
\* is run, no file is written, no encoder is launched, and the run, unless
\* it is cancelled, ends with "Failed to download video" and exit status 1.
C17_NoIdentifierFails ==
    NoIdentifier =>
        /\ requests_sent = 0
        /\ fallbacks = 0
        /\ tool_runs = 0
        /\ launches = 0
        /\ file = NoFile
        /\ pc \in {"downloaded", "exited"}
        /\ dl_result = "False" \/ RaisedAt("main") \/ RaisedAt("download_video")
        /\ (pc = "exited" /\ cancelled = <<>>) =>
               (exit_status = 1 /\ last_msg = "Failed to download video")

C17_Witness ==
    /\ NoIdentifier
    /\ video_url = Some(UrlDriveNoId)
    /\ pc = "exited"
    /\ exit_status = 1
    /\ requests_sent = 0

(* ------------------------- C18: no retries ---------------------------- *)

\* The acquisition is still running or has just returned to run.
Acquiring ==
    pc \in {"direct_get", "direct_body", "gdrive_get1", "gdrive_text", "gdrive_get2",
            "gdrive_body", "pip_install", "gdown", "downloaded"}

\* C18: the acquisition never retries.  The handshake is gone through at most
\* once (one first request, one second request), the direct download sends
\* one request, the alternative is called at most once and runs pip and gdown
\* at most once each, whichever trigger called it; once the alternative has
\* returned False, nothing is downloaded any more and the run ends without
\* an encoder, with exit status 1 unless it is cancelled.
C18_NoRetry ==
    /\ fallbacks <= 1
    /\ requests_sent <= 2
    /\ pc \in {"gdrive_get1", "gdrive_text", "direct_get", "direct_body"} => requests_sent = 1
    /\ pc \in {"gdrive_get2", "gdrive_body"} => requests_sent = 2
    /\ Acquiring => tool_runs <= 2 * fallbacks
    /\ pc = "pip_install" => (fallbacks = 1 /\ tool_runs = 1)
    /\ pc = "gdown" => (fallbacks = 1 /\ tool_runs = 2)
    /\ fb_result = "False" =>
          /\ pc \in {"downloaded", "exited"}
          /\ dl_result = "False"
          /\ fallbacks = 1
          /\ launches = 0
          /\ (pc = "exited" /\ cancelled = <<>>) => exit_status = 1

C18_Witness ==
    /\ pc = "exited"
    /\ dl_error = "gdrive_body"
    /\ fb_result = "False"
    /\ fallbacks = 1
    /\ requests_sent = 2
    /\ tool_runs = 2
    /\ exit_status = 1

(* ------------------ C19: whose file is accepted ----------------------- *)

\* C19: when the acquisition reports success, the working file was written
\* completely by the strategy that reports it: the alternative reports
\* success only for a file that gdown wrote, never for what an interrupted
\* or rejected handshake download left behind; the handshake and the direct
\* download report success only for their own completed file.
C19_SuccessFileIsOwn ==
    (pc = "downloaded" /\ dl_result = "True") =>
        /\ file.exists
        /\ fb_result = "True" => file.writer = "gdown"
        /\ fb_result # "True" => (file.writer \in {"gdrive", "direct"} /\ dl_error = "none")

(* ------------- C20: an interrupt before the supervisor ---------------- *)

\* The positions of the download at which the alternative has not been
\* called: blocking calls and prints.
BeforeAlternative ==
    {"main", "download_video", "direct_get", "direct_body", "direct_error",
     "gdrive_get1", "gdrive_text", "confirm", "gdrive_get2", "gdrive_headers",
     "gdrive_error", "gdrive_body"}

\* The positions inside the alternative.
InAlternative == {"alternative", "pip_install", "gdown", "gdown_done"}

\* The positions before start_streaming is entered: the download, the
\* checks of run, the probe.
PreSupervisor ==
    BeforeAlternative \cup InAlternative \cup {"downloaded", "ffprobe", "probe_done"}

\* C20: a KeyboardInterrupt raised before the supervisor is not handled as a
\* download or probe error.  The run is over and no encoder has been or is
\* launched; no download (the interrupt came before download_video returned)
\* and no probe has returned a result; the alternative was not called
\* because of it (an interrupt in the handshake or in the direct download
\* leaves the alternative and the tools untouched, one inside the
\* alternative leaves the one call that was under way); and, that interrupt
\* being the only one, the exit status is 0 with "Stopped by user".
C20_EarlyInterrupt ==
    (cancelled # <<>> /\ cancelled[1] \in PreSupervisor) =>
        /\ pc = "exited"
        /\ run_result = "unset"
        /\ launches = 0
        /\ plan = NoPlan
        /\ probe_result = "unset"
        /\ Len(cancelled) = 1 => (exit_status = 0 /\ last_msg = "Stopped by user")
        /\ cancelled[1] \in BeforeAlternative \cup InAlternative =>
               (dl_result = "unset" /\ fb_result = "unset")
        /\ cancelled[1] \in BeforeAlternative => (fallbacks = 0 /\ tool_runs = 0)
        /\ cancelled[1] \in InAlternative => fallbacks = 1
        /\ cancelled[1] = "alternative" => tool_runs = 0
        /\ cancelled[1] \in {"downloaded", "ffprobe", "probe_done"} => fallbacks <= 1

C20_Witness ==
    /\ cancelled = <<"gdrive_body">>
    /\ pc = "exited"
    /\ exit_status = 0
    /\ file.exists
    /\ file.size > MinFileSize
    /\ fallbacks = 0
    /\ launches = 0
====
